---- MODULE Spec2Model ----
(***************************************************************************)
(* A model of the CHIP-8 virtual machine of src/main.rs: the machine state *)
(* (struct State), the fetch-decode-execute step (Inst::exec), the opcode  *)
(* handlers (Inst::new), the timers (Reg::update_DT, Reg::update_ST), the  *)
(* display (Display) and the driver loop of main.                          *)
(***************************************************************************)
EXTENDS Integers, Sequences, FiniteSets, TLC

(* ------------------------------------------------------------------ *)
(* Constants of the program                                           *)
(* ------------------------------------------------------------------ *)
GP_REG_CNT == 16
KEYBOARD_SIZE == 16
RAM_SIZE == 4096
STACK_SIZE == 16
DISPLAY_MODE_WIDTH == 64
DISPLAY_MODE_HEIGHT == 32
ENTRY_POINT == 512
\* for _ in 0..5: the interpreter steps of one Update event
UPDATE_STEPS == 5

(* ------------------------------------------------------------------ *)
(* Bounds of the model                                                *)
(* ------------------------------------------------------------------ *)
\* the tallest sprite the drawing programs draw
MaxRows == 2
\* the deepest nesting of the call/return programs
MaxNest == 15
\* the most keyboard events delivered in one run
MaxInputs == 2

VARIABLES
    mem,              \* state.mem: the cells that are not 0 (every other cell of the 4096 is 0)
    stack,            \* state.stack
    reg,              \* state.reg: V, I, DT, ST, PC, SP
    display,          \* state.display.buffer: the set of <<row, col>> that are true
    audio,            \* state.audio.player: the sink's queue length and paused flag
    key,              \* state.key
    panic,            \* "none" while the process runs, else the panic that ended it
    iter,             \* position in the loop of the Update event (0..4)
    overflow_checks,  \* the build: TRUE traps integer overflow (debug), FALSE wraps (release)
    calls,            \* history: <<return address, SP before>> of the CALLs not yet returned from
    last,             \* history: the step just taken and the state it started from
    prev,             \* history: the step before that, in brief
    pending,          \* the keyboard events the window has still to deliver
    delivered,        \* history: the keyboard events delivered so far
    stored,           \* history: the last LD [I],Vx, while memory is as it left it
    tick,             \* history: the timers when the current Update event began
    sound             \* history: the last LD ST,Vx and the update_ST calls since

vars == <<mem, stack, reg, display, audio, key, panic, iter, overflow_checks, calls, last, prev,
          pending, delivered, stored, tick, sound>>

Byte == 0..255
Nibble == 0..15

(* ------------------------------------------------------------------ *)
(* u8 bit operations                                                  *)
(* ------------------------------------------------------------------ *)
Pow2(i) == CASE i = 0 -> 1 [] i = 1 -> 2 [] i = 2 -> 4 [] i = 3 -> 8
             [] i = 4 -> 16 [] i = 5 -> 32 [] i = 6 -> 64 [] i = 7 -> 128

BitAt(v, i) == (v \div Pow2(i)) % 2

BitAnd(a, b) ==
    LET T(i) == BitAt(a, i) * BitAt(b, i) * Pow2(i)
    IN T(0) + T(1) + T(2) + T(3) + T(4) + T(5) + T(6) + T(7)

BitOr(a, b) ==
    LET T(i) == (IF BitAt(a, i) + BitAt(b, i) > 0 THEN 1 ELSE 0) * Pow2(i)
    IN T(0) + T(1) + T(2) + T(3) + T(4) + T(5) + T(6) + T(7)

BitXor(a, b) ==
    LET T(i) == ((BitAt(a, i) + BitAt(b, i)) % 2) * Pow2(i)
    IN T(0) + T(1) + T(2) + T(3) + T(4) + T(5) + T(6) + T(7)

\* Wrapping(a) + Wrapping(b), Wrapping(a) - Wrapping(b) on u8
WrappingAdd(a, b) == (a + b) % 256
WrappingSub(a, b) == (a - b) % 256

(* ------------------------------------------------------------------ *)
(* Memory: [u8; RAM_SIZE], kept as its non-zero cells                 *)
(* ------------------------------------------------------------------ *)
MemRead(m, a) == IF a \in DOMAIN m THEN m[a] ELSE 0

MemWrite(m, a, b) ==
    IF b = 0 THEN [k \in DOMAIN m \ {a} |-> m[k]]
    ELSE [k \in DOMAIN m \cup {a} |-> IF k = a THEN b ELSE m[k]]

\* a Rust range lo..hi, as the sequence it iterates over (empty when lo >= hi)
Range(lo, hi) == IF lo < hi THEN [i \in 1..(hi - lo) |-> lo + i - 1] ELSE << >>

Panic(state, msg) == [state EXCEPT !.panic = msg]

(* ------------------------------------------------------------------ *)
(* Audio                                                              *)
(* ------------------------------------------------------------------ *)
Audio_new == [len |-> 0, paused |-> FALSE]

Audio_play(a) == [len |-> IF a.len = 0 THEN 1 ELSE a.len, paused |-> FALSE]

Audio_stop(a) == [a EXCEPT !.paused = TRUE]

Audio_is_playing(a) == ~a.paused /\ a.len > 0

(* ------------------------------------------------------------------ *)
(* Registers and timers                                               *)
(* ------------------------------------------------------------------ *)
Reg_new == [V |-> [i \in 0..(GP_REG_CNT - 1) |-> 0],
            I |-> 0, DT |-> 0, ST |-> 0, PC |-> 0, SP |-> 0]

\* update_DT without its test: 0 wraps to 255
update_DT_wrap(state) == [state EXCEPT !.reg.DT = (@ - 1) % 256]

update_DT(state) ==
    IF state.reg.DT > 0 THEN [state EXCEPT !.reg.DT = @ - 1] ELSE state

\* update_ST that never stops the audio
update_ST_nostop(state) ==
    IF state.reg.ST > 0
    THEN [state EXCEPT !.reg.ST = @ - 1,
                       !.audio = IF ~Audio_is_playing(@) THEN Audio_play(@) ELSE @]
    ELSE state

update_ST(state) ==
    IF state.reg.ST > 0
    THEN LET a1 == IF ~Audio_is_playing(state.audio)
                   THEN Audio_play(state.audio) ELSE state.audio
             st == state.reg.ST - 1
             a2 == IF st = 0 THEN Audio_stop(a1) ELSE a1
         IN [state EXCEPT !.reg.ST = st, !.audio = a2]
    ELSE state

\* state.reg.SP = v for the result v of u8 arithmetic: out of range, the
\* build either traps (overflow checks) or keeps the low 8 bits
SetSP(state, v) ==
    IF v \in Byte THEN [state EXCEPT !.reg.SP = v]
    ELSE IF overflow_checks THEN Panic(state, "arithmetic overflow")
    ELSE [state EXCEPT !.reg.SP = v % 256]

(* ------------------------------------------------------------------ *)
(* Display                                                            *)
(* ------------------------------------------------------------------ *)
Display_new == {}

Display_cls == {}

\* Display::pixel with the sprite bit ORed into the pixel instead of XORed
Display_pixel_or(buffer, row, col, update) ==
    LET r == row % DISPLAY_MODE_HEIGHT
        c == col % DISPLAY_MODE_WIDTH
        cur == <<r, c>> \in buffer
    IN [buffer |-> IF update THEN buffer \cup {<<r, c>>} ELSE buffer,
        overriden |-> (cur /= update)]

\* Display::pixel: the new buffer and the value returned
Display_pixel(buffer, row, col, update) ==
    LET r == row % DISPLAY_MODE_HEIGHT
        c == col % DISPLAY_MODE_WIDTH
        cur == <<r, c>> \in buffer
        updated == (cur /= update)
    IN [buffer |-> IF updated THEN buffer \cup {<<r, c>>} ELSE buffer \ {<<r, c>>},
        overriden |-> (cur /= update)]

(* ------------------------------------------------------------------ *)
(* Opcode handlers: Inst::new. bits is the ChunkedOp <<n1, n2, n3, n4>>, *)
(* state the machine after the fetch has advanced PC.                 *)
(* ------------------------------------------------------------------ *)
Addr(bits) == bits[2] * 256 + bits[3] * 16 + bits[4]

KK(bits) == (bits[3] * 16 + bits[4]) % 256

SetV(state, x, v) == [state EXCEPT !.reg.V[x] = v]

Skip(state) == [state EXCEPT !.reg.PC = @ + 2]

Op_00E0(bits, state) == [state EXCEPT !.display = Display_cls]

Op_00EE(bits, state) ==
    IF state.reg.SP >= STACK_SIZE THEN Panic(state, "index out of bounds")
    ELSE LET s1 == [state EXCEPT !.reg.PC = state.stack[state.reg.SP]]
         IN SetSP(s1, s1.reg.SP - 1)

Op_1nnn(bits, state) == [state EXCEPT !.reg.PC = Addr(bits)]

\* CALL storing at stack[SP] and incrementing SP afterwards
Op_2nnn_post(bits, state) ==
    IF state.reg.SP >= STACK_SIZE THEN Panic(state, "index out of bounds")
    ELSE SetSP([state EXCEPT !.stack[state.reg.SP] = state.reg.PC, !.reg.PC = Addr(bits)],
               state.reg.SP + 1)

Op_2nnn(bits, state) ==
    LET s1 == SetSP(state, state.reg.SP + 1)
    IN IF s1.panic /= "none" THEN s1
       ELSE IF s1.reg.SP >= STACK_SIZE THEN Panic(s1, "index out of bounds")
       ELSE [s1 EXCEPT !.stack[s1.reg.SP] = s1.reg.PC, !.reg.PC = Addr(bits)]

Op_3xkk(bits, state) ==
    IF state.reg.V[bits[2]] = KK(bits) THEN Skip(state) ELSE state

Op_4xkk(bits, state) ==
    IF state.reg.V[bits[2]] /= KK(bits) THEN Skip(state) ELSE state

Op_5xy0(bits, state) ==
    IF state.reg.V[bits[2]] = state.reg.V[bits[3]] THEN Skip(state) ELSE state

Op_6xkk(bits, state) == SetV(state, bits[2], KK(bits))

\* ADD Vx,kk that also reports the carry in VF
Op_7xkk_carry(bits, state) ==
    LET x == bits[2]
        s1 == SetV(state, 15, IF state.reg.V[x] + KK(bits) > 255 THEN 1 ELSE 0)
    IN SetV(s1, x, WrappingAdd(state.reg.V[x], KK(bits)))

Op_7xkk(bits, state) ==
    SetV(state, bits[2], WrappingAdd(state.reg.V[bits[2]], KK(bits)))

Op_8xy0(bits, state) == SetV(state, bits[2], state.reg.V[bits[3]])

Op_8xy1(bits, state) ==
    SetV(state, bits[2], BitOr(state.reg.V[bits[2]], state.reg.V[bits[3]]))

Op_8xy2(bits, state) ==
    SetV(state, bits[2], BitAnd(state.reg.V[bits[2]], state.reg.V[bits[3]]))

Op_8xy3(bits, state) ==
    SetV(state, bits[2], BitXor(state.reg.V[bits[2]], state.reg.V[bits[3]]))

\* ADD Vx,Vy with carry in: VF is added to the sum
Op_8xy4_adc(bits, state) ==
    LET x == bits[2]
        y == bits[3]
        s1 == SetV(state, 15, IF state.reg.V[x] + state.reg.V[y] > 255 THEN 1 ELSE 0)
    IN SetV(s1, x, (state.reg.V[x] + state.reg.V[y] + state.reg.V[15]) % 256)

\* VF is assigned first; the second statement reads V[x] and V[y] again
Op_8xy4(bits, state) ==
    LET x == bits[2]
        y == bits[3]
        s1 == SetV(state, 15, IF state.reg.V[x] + state.reg.V[y] > 255 THEN 1 ELSE 0)
    IN SetV(s1, x, WrappingAdd(s1.reg.V[x], s1.reg.V[y]))

Op_8xy5(bits, state) ==
    LET x == bits[2]
        y == bits[3]
        s1 == SetV(state, 15, IF state.reg.V[x] > state.reg.V[y] THEN 1 ELSE 0)
    IN SetV(s1, x, WrappingSub(s1.reg.V[x], s1.reg.V[y]))

\* SHR taking the flag from Vx after the shift
Op_8xy6_after(bits, state) ==
    LET x == bits[2]
        s1 == SetV(state, x, state.reg.V[x] \div 2)
    IN SetV(s1, 15, IF BitAnd(s1.reg.V[x], 1) /= 0 THEN 1 ELSE 0)

Op_8xy6(bits, state) ==
    LET x == bits[2]
        s1 == SetV(state, 15, IF BitAnd(state.reg.V[x], 1) /= 0 THEN 1 ELSE 0)
    IN SetV(s1, x, s1.reg.V[x] \div 2)

Op_8xy7(bits, state) ==
    LET x == bits[2]
        y == bits[3]
        s1 == SetV(state, 15, IF state.reg.V[y] > state.reg.V[x] THEN 1 ELSE 0)
    IN SetV(s1, x, WrappingSub(s1.reg.V[y], s1.reg.V[x]))

Op_8xyE(bits, state) ==
    LET x == bits[2]
        s1 == SetV(state, 15, IF BitAnd(state.reg.V[x], 128) /= 0 THEN 1 ELSE 0)
    IN SetV(s1, x, (s1.reg.V[x] * 2) % 256)

Op_9xy0(bits, state) ==
    IF state.reg.V[bits[2]] /= state.reg.V[bits[3]] THEN Skip(state) ELSE state

Op_Annn(bits, state) == [state EXCEPT !.reg.I = Addr(bits)]

Op_Bnnn(bits, state) == [state EXCEPT !.reg.PC = Addr(bits) + state.reg.V[0]]

\* rnd is the byte rand::thread_rng() returns
Op_Cxkk(bits, state, rnd) == SetV(state, bits[2], BitAnd(rnd, KK(bits)))

\* the test of Dxyn without its "byte & mask != 0": any lit pixel under the sprite
Collision_any(buffer, row, col, bit) == <<row, col>> \in buffer

\* the test of Dxyn before each call of Display::pixel: a set sprite bit on
\* a pixel that is lit (row and col are inside the buffer here)
Collision(buffer, row, col, bit) == bit /\ <<row, col>> \in buffer

(* Dxyn. The loop of the handler, one sprite bit at a time: d is the     *)
(* handler's state so far (the display buffer, V, the panic, col, and    *)
(* log, the calls of Display::pixel made so far, each with the wrapped   *)
(* pixel, the bit applied and the pixel's value before the call); j      *)
(* counts the bits done, row0 is V[y] as read before the loop.           *)
RECURSIVE DrawFrom(_, _, _, _, _)
DrawFrom(d, bytes, row0, x, j) ==
    IF j >= 8 * Len(bytes) \/ d.panic /= "none" THEN d
    ELSE LET byte == bytes[(j \div 8) + 1]
             k == j % 8
             row == row0 + (j \div 8)
             col == IF k = 0 THEN d.V[x] ELSE d.col
             bit == BitAt(byte, 7 - k) = 1
         IN IF bit /\ (row >= DISPLAY_MODE_HEIGHT \/ col >= DISPLAY_MODE_WIDTH)
            THEN [d EXCEPT !.panic = "index out of bounds"]
            ELSE LET lit == Collision(d.buffer, row, col, bit)
                     px == Display_pixel(d.buffer, row, col, bit)
                     entry == [row |-> row % DISPLAY_MODE_HEIGHT,
                               col |-> col % DISPLAY_MODE_WIDTH,
                               bit |-> bit,
                               before |-> <<row % DISPLAY_MODE_HEIGHT,
                                            col % DISPLAY_MODE_WIDTH>> \in d.buffer]
                 IN DrawFrom([buffer |-> px.buffer,
                              V |-> IF lit THEN [d.V EXCEPT ![15] = 1] ELSE d.V,
                              panic |-> d.panic,
                              col |-> col + 1,
                              log |-> Append(d.log, entry)],
                             bytes, row0, x, j + 1)

\* the bytes &state.mem[addr..addr+n]
SpriteBytes(m, addr, n) == [i \in 1..n |-> MemRead(m, addr + i - 1)]

\* the handler's loop, run from the state the fetch left
Draw(bits, state) ==
    LET V0 == [state.reg.V EXCEPT ![15] = 0]
    IN DrawFrom([buffer |-> state.display, V |-> V0, panic |-> "none",
                 col |-> 0, log |-> << >>],
                SpriteBytes(state.mem, state.reg.I, bits[4]), V0[bits[3]], bits[2], 0)

Op_Dxyn(bits, state) ==
    IF state.reg.I + bits[4] > RAM_SIZE THEN Panic(state, "index out of bounds")
    ELSE LET d == Draw(bits, state)
         IN [state EXCEPT !.display = d.buffer, !.reg.V = d.V, !.panic = d.panic]

\* SKP Vx with the key number reduced modulo 16
Op_Ex9E_mod(bits, state) ==
    IF state.key[state.reg.V[bits[2]] % KEYBOARD_SIZE] THEN Skip(state) ELSE state

Op_Ex9E(bits, state) ==
    IF state.reg.V[bits[2]] >= KEYBOARD_SIZE THEN Panic(state, "index out of bounds")
    ELSE IF state.key[state.reg.V[bits[2]]] THEN Skip(state) ELSE state

Op_ExA1(bits, state) ==
    IF state.reg.V[bits[2]] >= KEYBOARD_SIZE THEN Panic(state, "index out of bounds")
    ELSE IF ~state.key[state.reg.V[bits[2]]] THEN Skip(state) ELSE state

Op_Fx07(bits, state) == SetV(state, bits[2], state.reg.DT)

Op_Fx0A(bits, state) == SetV(state, bits[2], 1)

Op_Fx15(bits, state) == [state EXCEPT !.reg.DT = state.reg.V[bits[2]]]

Op_Fx18(bits, state) == [state EXCEPT !.reg.ST = state.reg.V[bits[2]]]

Op_Fx1E(bits, state) ==
    [state EXCEPT !.reg.I = (state.reg.I + state.reg.V[bits[2]]) % 65536]

\* LD F,Vx for glyphs of four bytes
Op_Fx29_four(bits, state) == [state EXCEPT !.reg.I = state.reg.V[bits[2]] * 4]

Op_Fx29(bits, state) == [state EXCEPT !.reg.I = state.reg.V[bits[2]] * 5]

\* the loop of Fx33 over the indices idx, from position p: num is the
\* running quotient
RECURSIVE BcdFrom(_, _, _, _)
BcdFrom(state, idx, p, num) ==
    IF p > Len(idx) \/ state.panic /= "none" THEN state
    ELSE LET a == state.reg.I + idx[p]
         IN IF a >= RAM_SIZE THEN Panic(state, "index out of bounds")
            ELSE BcdFrom([state EXCEPT !.mem = MemWrite(@, a, num % 10)],
                         idx, p + 1, num \div 10)

\* for i in 2..0
Op_Fx33(bits, state) == BcdFrom(state, Range(2, 0), 1, state.reg.V[bits[2]])

RECURSIVE StoreFrom(_, _, _)
StoreFrom(state, idx, p) ==
    IF p > Len(idx) \/ state.panic /= "none" THEN state
    ELSE LET a == state.reg.I + idx[p]
         IN IF a >= RAM_SIZE THEN Panic(state, "index out of bounds")
            ELSE StoreFrom([state EXCEPT !.mem = MemWrite(@, a, state.reg.V[idx[p]])],
                           idx, p + 1)

\* LD [I],Vx that stops before Vx: for i in 0..x
Op_Fx55_exclusive(bits, state) == StoreFrom(state, Range(0, bits[2]), 1)

\* for i in 0..x+1
Op_Fx55(bits, state) == StoreFrom(state, Range(0, bits[2] + 1), 1)

RECURSIVE LoadFrom(_, _, _)
LoadFrom(state, idx, p) ==
    IF p > Len(idx) \/ state.panic /= "none" THEN state
    ELSE LET a == state.reg.I + idx[p]
         IN IF a >= RAM_SIZE THEN Panic(state, "index out of bounds")
            ELSE LoadFrom(SetV(state, idx[p], MemRead(state.mem, a)), idx, p + 1)

Op_Fx65(bits, state) == LoadFrom(state, Range(0, bits[2] + 1), 1)

(* ------------------------------------------------------------------ *)
(* Inst::exec: fetch and decode                                       *)
(* ------------------------------------------------------------------ *)
\* a fetch that never faults: the cells past the end read as 0
CanFetch_always(state) == TRUE

\* both state.mem[PC] and state.mem[PC + 1] are inside the array
CanFetch(state) == state.reg.PC + 1 < RAM_SIZE

Fetch(state) ==
    MemRead(state.mem, state.reg.PC) * 256 + MemRead(state.mem, state.reg.PC + 1)

Chunk(op) == <<(op \div 4096) % 16, (op \div 256) % 16, (op \div 16) % 16, op % 16>>

\* the match of Inst::exec, its arms in order
Decode(b) ==
    CASE b = <<0, 0, 14, 0>> -> "00E0"
      [] b = <<0, 0, 14, 14>> -> "00EE"
      [] b[1] = 1 -> "1nnn"
      [] b[1] = 2 -> "2nnn"
      [] b[1] = 3 -> "3xkk"
      [] b[1] = 4 -> "4xkk"
      [] b[1] = 5 /\ b[4] = 0 -> "5xy0"
      [] b[1] = 6 -> "6xkk"
      [] b[1] = 7 -> "7xkk"
      [] b[1] = 8 /\ b[4] = 0 -> "8xy0"
      [] b[1] = 8 /\ b[4] = 1 -> "8xy1"
      [] b[1] = 8 /\ b[4] = 2 -> "8xy2"
      [] b[1] = 8 /\ b[4] = 3 -> "8xy3"
      [] b[1] = 8 /\ b[4] = 4 -> "8xy4"
      [] b[1] = 8 /\ b[4] = 5 -> "8xy5"
      [] b[1] = 8 /\ b[4] = 6 -> "8xy6"
      [] b[1] = 8 /\ b[4] = 7 -> "8xy7"
      [] b[1] = 8 /\ b[4] = 14 -> "8xyE"
      [] b[1] = 9 /\ b[4] = 0 -> "9xy0"
      [] b[1] = 10 -> "Annn"
      [] b[1] = 11 -> "Bnnn"
      [] b[1] = 12 -> "Cxkk"
      [] b[1] = 13 -> "Dxyn"
      [] b[1] = 14 /\ b[3] = 9 /\ b[4] = 14 -> "Ex9E"
      [] b[1] = 14 /\ b[3] = 10 /\ b[4] = 1 -> "ExA1"
      [] b[1] = 15 /\ b[3] = 0 /\ b[4] = 7 -> "Fx07"
      [] b[1] = 15 /\ b[3] = 0 /\ b[4] = 10 -> "Fx0A"
      [] b[1] = 15 /\ b[3] = 1 /\ b[4] = 5 -> "Fx15"
      [] b[1] = 15 /\ b[3] = 1 /\ b[4] = 8 -> "Fx18"
      [] b[1] = 15 /\ b[3] = 1 /\ b[4] = 14 -> "Fx1E"
      [] b[1] = 15 /\ b[3] = 2 /\ b[4] = 9 -> "Fx29"
      [] b[1] = 15 /\ b[3] = 3 /\ b[4] = 3 -> "Fx33"
      [] b[1] = 15 /\ b[3] = 5 /\ b[4] = 5 -> "Fx55"
      [] b[1] = 15 /\ b[3] = 6 /\ b[4] = 5 -> "Fx65"
      [] OTHER -> "invalid"

(* ------------------------------------------------------------------ *)
(* main: the ROM images run, and the state before the first event     *)
(* ------------------------------------------------------------------ *)
\* the hex digits preloaded at address 0
digits ==
    <<240, 144, 144, 144, 240,   32,  96,  32,  32, 112,
      240,  16, 240, 128, 240,  240,  16, 240,  16, 240,
      144, 144, 240,  16,  16,  240, 128, 240,  16, 240,
      240, 128, 240, 144, 240,  240,  16,  32,  64,  64,
      240, 144, 240, 144, 144,  240, 144, 240,  16, 240,
      240, 144, 240, 144, 144,  224, 144, 224, 144, 224,
      240, 128, 128, 128, 240,  224, 144, 144, 144, 224,
      240, 128, 240, 128, 240,  240, 128, 240, 128, 128>>

\* the ROM bytes copied to address 0 instead of ENTRY_POINT, over the digits
LoadMem_unshifted(bytes) ==
    LET At(a) == IF a < Len(bytes) THEN bytes[a + 1]
                 ELSE IF a < Len(digits) THEN digits[a + 1] ELSE 0
        cells == {a \in (0..(Len(digits) - 1)) \cup (0..(Len(bytes) - 1)) : At(a) /= 0}
    IN [a \in cells |-> At(a)]

\* state.mem after the ROM bytes are copied to ENTRY_POINT and the digits to 0
LoadMem(bytes) ==
    LET At(a) == IF a < Len(digits) THEN digits[a + 1]
                 ELSE IF a >= ENTRY_POINT /\ a - ENTRY_POINT < Len(bytes)
                      THEN bytes[a - ENTRY_POINT + 1] ELSE 0
        cells == {a \in (0..(Len(digits) - 1))
                          \cup (ENTRY_POINT..(ENTRY_POINT + Len(bytes) - 1)) : At(a) /= 0}
    IN [a \in cells |-> At(a)]

\* one opcode, from its nibbles or from its value, as the two bytes of the file
Ins(a, b, c, d) == <<a * 16 + b, c * 16 + d>>
Word(w) == <<w \div 256, w % 256>>
LdV(x, v) == Ins(6, x, v \div 16, v % 16)
LdI(addr) == Word(40960 + addr)

RegSamples == {0, 1, 14, 15}
ByteSamples == {1, 2, 128, 255}

\* LD VF,3; LD Vx,a; LD Vy,b; then 8xy<low>
AluLow == {0, 1, 2, 3, 4, 5, 6, 7, 14}
AluPrograms ==
    {Ins(6, 15, 0, 3) \o LdV(x, a) \o LdV(y, b) \o Ins(8, x, y, low) :
        x \in RegSamples, y \in RegSamples, a \in ByteSamples, b \in ByteSamples,
        low \in AluLow}

\* LD VF,3; LD Vx,a; ADD Vx,kk
AddImmPrograms ==
    {Ins(6, 15, 0, 3) \o LdV(x, a) \o Ins(7, x, kk \div 16, kk % 16) :
        x \in RegSamples, a \in ByteSamples, kk \in ByteSamples}

\* LD Vx,a; LD Vy,b; a background sprite drawn once, then a sprite drawn twice.
\* The code is followed by a zero word and the rows of the two sprites.
DrawCoords == {<<0, 0>>, <<60, 0>>, <<0, 31>>, <<63, 31>>, <<70, 40>>}
DrawRegs == {<<0, 1>>, <<15, 1>>, <<1, 15>>}
Backgrounds == {<<240, 240>>, <<0, 0>>}
Sprites == {<<60, 60>>, <<15, 15>>, <<128, 0>>, <<255, 129>>}
SpriteRows(p) == [i \in 1..MaxRows |-> p[((i - 1) % 2) + 1]]
DrawDataAddr == ENTRY_POINT + 16
DrawPrograms ==
    {LdV(r[1], c[1]) \o LdV(r[2], c[2])
        \o LdI(DrawDataAddr) \o Ins(13, r[1], r[2], MaxRows)
        \o LdI(DrawDataAddr + MaxRows) \o Ins(13, r[1], r[2], n) \o Ins(13, r[1], r[2], n)
        \o <<0, 0>> \o SpriteRows(bg) \o SpriteRows(sp) :
        r \in DrawRegs, c \in DrawCoords, bg \in Backgrounds, sp \in Sprites,
        n \in 0..MaxRows}

\* k nested CALLs, then k RETs: CALL 0x204, 0, CALL 0x208, RET, ..., RET
NestWord(k, j) ==
    IF j = 2 * k THEN 238
    ELSE IF j % 2 = 0 THEN 8192 + ENTRY_POINT + 2 * (j + 2)
    ELSE IF j = 1 THEN 0 ELSE 238
NestProgram(k) ==
    LET from[j \in 0..(2 * k + 1)] ==
            IF j > 2 * k THEN << >> ELSE Word(NestWord(k, j)) \o from[j + 1]
    IN from[0]

\* CALL 0x200 for ever; RET on the empty stack; and a RET on the empty
\* stack after a CALL 0x210 was stored at address 0, with a RET at 0x210
CallPrograms ==
    {NestProgram(k) : k \in 1..MaxNest}
    \cup {Word(8704), Word(238),
          LdV(0, 34) \o LdV(1, 16) \o LdI(0) \o Ins(15, 1, 5, 5) \o Word(238)
            \o <<0, 0, 0, 0, 0, 0>> \o Word(238)}

\* LD Vx,a; LD I,addr; LD B,Vx
BcdValues == {0, 7, 123, 255}
BcdAddrs == {768, 4093, 4094}
BcdPrograms ==
    {LdV(x, a) \o LdI(i) \o Ins(15, x, 3, 3) :
        x \in RegSamples, a \in BcdValues, i \in BcdAddrs}

\* one pass over the other instructions, ending in a jump out of memory
TourProgram ==
    Word(224) \o Word(4614) \o Word(0) \o LdV(0, 5) \o Ins(3, 0, 0, 5) \o Word(0)
      \o Ins(4, 0, 0, 5) \o Ins(5, 0, 0, 0) \o Word(0) \o Ins(9, 0, 1, 0) \o Word(0)
      \o Ins(12, 2, 0, 15) \o Ins(14, 1, 9, 14) \o Ins(14, 1, 10, 1) \o Word(0)
      \o Ins(15, 0, 1, 5) \o Ins(15, 0, 1, 8) \o Ins(15, 3, 0, 7) \o Ins(15, 4, 0, 10)
      \o Ins(15, 0, 1, 14) \o Ins(15, 0, 2, 9) \o LdI(768) \o Ins(15, 4, 5, 5)
      \o Ins(15, 4, 6, 5) \o Ins(11, 15, 15, 10)

\* LD V0,a; LD V1,b; LD VF,9; LD I,i; LD [I],Vx; LD V0,77; ADD V1,7; LD VF,0;
\* LD Vx,[I]
StoreRegs == {0, 1, 15}
StoreAddrs == {40, 79, 80, 768, 4080, 4094, 4095}
StorePrograms ==
    {LdV(0, a) \o LdV(1, b) \o LdV(15, 9) \o LdI(i) \o Ins(15, x, 5, 5)
        \o LdV(0, 77) \o Ins(7, 1, 0, 7) \o LdV(15, 0) \o Ins(15, x, 6, 5) :
        a \in {0, 200}, b \in {3, 255}, x \in StoreRegs, i \in StoreAddrs}

\* LD I,i; LD Vx,[I]: registers read from the digits and from the end of memory
LoadPrograms ==
    {LdI(i) \o Ins(15, x, 6, 5) : x \in StoreRegs, i \in {0, 4094, 4095}}

\* jumps to the last cells of memory and past them:
\* JP addr, and LD V0,v; JP V0,addr
EdgeAddrs == {4093, 4094, 4095}
EdgeOffsets == {0, 1, 2, 255}
JumpPrograms ==
    {Word(4096 + a) : a \in EdgeAddrs}
    \cup {LdV(0, v) \o Word(45056 + a) : v \in EdgeOffsets, a \in EdgeAddrs}

\* LD V0,v; LD V1,7; LD I,a; ADD I,V0; then a DRW, a LD [I],Vx or a LD Vx,[I]
\* at the end of memory
EdgeOps ==
    {Ins(13, 1, 2, 0), Ins(13, 1, 2, 1), Ins(13, 1, 2, 2),
     Ins(15, 0, 5, 5), Ins(15, 1, 5, 5), Ins(15, 0, 6, 5), Ins(15, 1, 6, 5)}
EdgePrograms ==
    {LdV(0, v) \o LdV(1, 7) \o LdI(a) \o Ins(15, 0, 1, 14) \o op :
        v \in EdgeOffsets, a \in EdgeAddrs, op \in EdgeOps}

\* LD V0,k; LD DT,V0; LD ST,V0; nine LD V1,0; LD ST,V0; four LD V1,0
TimerValues == {0, 1, 2, 3, 9}
Repeat(bytes, n) == [i \in 1..(n * Len(bytes)) |-> bytes[((i - 1) % Len(bytes)) + 1]]
TimerPrograms ==
    {LdV(0, k) \o Ins(15, 0, 1, 5) \o Ins(15, 0, 1, 8) \o Repeat(LdV(1, 0), 9)
        \o Ins(15, 0, 1, 8) \o Repeat(LdV(1, 0), 4) : k \in TimerValues}

\* LD V0,k; LD ST,V0; LD V1,j; LD ST,V1; three LD V2,0: ST written again
\* while the first sound may still be playing
MutePrograms ==
    {LdV(0, k) \o Ins(15, 0, 1, 8) \o LdV(1, j) \o Ins(15, 1, 1, 8)
        \o Repeat(LdV(2, 0), 3) : k \in {1, 3}, j \in {0, 2}}

\* one opcode alone: every low byte behind the nibbles 0, E and F, every last
\* nibble behind 5, 8 and 9, one opcode behind each other first nibble, and
\* opcodes no arm of the match takes
OpcodeSamples ==
    {n1 * 4096 + 256 + low : n1 \in {0, 14, 15}, low \in 0..255}
    \cup {n1 * 4096 + 288 + n4 : n1 \in {5, 8, 9}, n4 \in 0..15}
    \cup {n1 * 4096 + 291 : n1 \in {1, 2, 3, 4, 6, 7, 10, 11, 12, 13}}
    \cup {0, 224, 238, 23217, 35512, 39601, 59904, 64255}
OpcodePrograms == {Word(op) : op \in OpcodeSamples}

\* LD V0,d; LD F,V0; DRW V1,V2,5
GlyphPrograms ==
    {LdV(0, d) \o Ins(15, 0, 2, 9) \o Ins(13, 1, 2, 5) : d \in 0..15}

\* LD V0,a; LD V1,b; then SE V0,5, SNE V0,5, SE V0,V1 or SNE V0,V1
SkipPrograms ==
    {LdV(0, a) \o LdV(1, b) \o op :
        a \in {0, 5}, b \in {0, 5},
        op \in {Ins(3, 0, 0, 5), Ins(4, 0, 0, 5), Ins(5, 0, 1, 0), Ins(9, 0, 1, 0)}}

\* LD V0,k; SKP V0; LD V2,1; SKNP V0; LD V3,1; LD V1,K, for k a key of the
\* events or a value that is no key; and the same with SKNP V0 first
KeySamples == {0, 1, 15}
KeyRegValues == KeySamples \cup {16, 31}
KeyPrograms ==
    {LdV(0, k) \o Ins(14, 0, 9, 14) \o LdV(2, 1) \o Ins(14, 0, 10, 1) \o LdV(3, 1)
        \o Ins(15, 1, 0, 10) : k \in KeyRegValues}
    \cup {LdV(0, k) \o Ins(14, 0, 10, 1) \o LdV(2, 1) : k \in {16, 31}}

Programs ==
    AluPrograms \cup AddImmPrograms \cup DrawPrograms \cup CallPrograms
        \cup BcdPrograms \cup {TourProgram}
        \cup StorePrograms \cup LoadPrograms \cup JumpPrograms \cup EdgePrograms
        \cup TimerPrograms \cup OpcodePrograms \cup GlyphPrograms \cup SkipPrograms
        \cup MutePrograms

\* the keyboard events of a run: <<idx, pressed>> for the key translated to idx
KeyEvents == KeySamples \X BOOLEAN
EventScripts == UNION {[1..n -> KeyEvents] : n \in 0..MaxInputs}

\* a run: the ROM file and the keyboard events the user makes
Scenarios ==
    {[rom |-> p, events |-> << >>] : p \in Programs}
    \cup {[rom |-> p, events |-> e] : p \in KeyPrograms, e \in EventScripts}

NoStep == [key |-> "none", bits |-> <<0, 0, 0, 0>>, reg |-> Reg_new,
           stack |-> [i \in 0..(STACK_SIZE - 1) |-> 0], mem |-> << >>,
           display |-> Display_new, audio |-> Audio_new,
           keys |-> [i \in 0..(KEYBOARD_SIZE - 1) |-> FALSE], panic |-> "none",
           delivered |-> << >>, calls |-> << >>, log |-> << >>]

NoStore == [valid |-> FALSE, I |-> 0, x |-> 0, V |-> Reg_new.V]

\* what is kept of a step once another has followed it; sprite is the rows a
\* DRW read
Brief(step) ==
    [key |-> step.key, bits |-> step.bits, reg |-> step.reg, display |-> step.display,
     calls |-> step.calls,
     sprite |-> IF step.key = "Dxyn" /\ step.reg.I + step.bits[4] <= RAM_SIZE
                THEN SpriteBytes(step.mem, step.reg.I, step.bits[4]) ELSE << >>]

Init ==
    /\ \E run \in Scenarios : mem = LoadMem(run.rom) /\ pending = run.events
    /\ stack = [i \in 0..(STACK_SIZE - 1) |-> 0]
    /\ reg = [Reg_new EXCEPT !.PC = ENTRY_POINT]
    /\ display = Display_new
    /\ audio = Audio_new
    /\ key = [i \in 0..(KEYBOARD_SIZE - 1) |-> FALSE]
    /\ panic = "none"
    /\ iter = 0
    /\ overflow_checks \in BOOLEAN
    /\ calls = << >>
    /\ last = NoStep
    /\ prev = Brief(NoStep)
    /\ delivered = << >>
    /\ stored = NoStore
    /\ tick = [DT |-> 0, ST |-> 0, wrote |-> FALSE]
    /\ sound = [k |-> 0, n |-> 0, stopped |-> TRUE]

(* ------------------------------------------------------------------ *)
(* One iteration of the loop of the Update event:                     *)
(* update_ST, update_DT, then Inst::exec                              *)
(* ------------------------------------------------------------------ *)
Cur == [mem |-> mem, stack |-> stack, reg |-> reg, display |-> display,
        audio |-> audio, key |-> key, panic |-> panic]

Ticked == update_DT(update_ST(Cur))

\* the handler started before state.reg.PC += 2
Fetched_late == Ticked

\* the state the handler starts from: state.reg.PC += 2 is done
Fetched == [Ticked EXCEPT !.reg.PC = @ + 2]

CurBits == Chunk(Fetch(Ticked))

Dispatch(k) ==
    /\ panic = "none"
    /\ CanFetch(Ticked)
    /\ Decode(CurBits) = k

Commit(k, s, log) ==
    /\ mem' = s.mem
    /\ stack' = s.stack
    /\ reg' = s.reg
    /\ display' = s.display
    /\ audio' = s.audio
    /\ key' = s.key
    /\ panic' = s.panic
    /\ iter' = (iter + 1) % UPDATE_STEPS
    /\ calls' = IF s.panic /= "none" THEN calls
                ELSE IF k = "2nnn" THEN Append(calls, <<Fetched.reg.PC, reg.SP>>)
                ELSE IF k = "00EE" /\ calls /= << >> THEN SubSeq(calls, 1, Len(calls) - 1)
                ELSE calls
    /\ last' = [key |-> k, bits |-> IF k = "fetch" THEN <<0, 0, 0, 0>> ELSE CurBits,
                reg |-> reg, stack |-> stack, mem |-> mem, display |-> display,
                audio |-> audio, keys |-> key, panic |-> panic,
                delivered |-> delivered, calls |-> calls, log |-> log]
    /\ prev' = Brief(last)
    /\ stored' = IF k = "Fx55" /\ s.panic = "none"
                 THEN [valid |-> TRUE, I |-> Fetched.reg.I, x |-> CurBits[2],
                       V |-> Fetched.reg.V]
                 ELSE IF s.mem /= mem THEN NoStore ELSE stored
    /\ tick' = LET writes == k \in {"Fx15", "Fx18"}
               IN IF iter = 0 THEN [DT |-> reg.DT, ST |-> reg.ST, wrote |-> writes]
                  ELSE [tick EXCEPT !.wrote = @ \/ writes]
    /\ sound' = IF k = "Fx18"
                THEN [k |-> s.reg.ST, n |-> 0, stopped |-> ~Audio_is_playing(s.audio)]
                ELSE IF sound.k > 0 THEN [sound EXCEPT !.n = @ + 1] ELSE sound
    /\ UNCHANGED <<overflow_checks, pending, delivered>>

\* Event::Input between two Update events: map_keyboard sets the key's flag
Input ==
    /\ panic = "none"
    /\ iter = 0
    /\ pending /= << >>
    /\ key' = [key EXCEPT ![Head(pending)[1]] = Head(pending)[2]]
    /\ pending' = Tail(pending)
    /\ delivered' = Append(delivered, Head(pending))
    /\ UNCHANGED <<mem, stack, reg, display, audio, panic, iter, overflow_checks, calls,
                   last, prev, stored, tick, sound>>

\* state.mem[PC] or state.mem[PC + 1] is outside the array
FetchFault ==
    /\ panic = "none"
    /\ ~CanFetch(Ticked)
    /\ Commit("fetch", Panic(Ticked, "index out of bounds"), << >>)

\* an opcode no arm takes is skipped instead of ending the process
InvalidInstruction_skip ==
    /\ Dispatch("invalid")
    /\ Commit("invalid", Fetched, << >>)

\* the last arm of the match
InvalidInstruction ==
    /\ Dispatch("invalid")
    /\ Commit("invalid", Panic(Fetched, "invalid instruction"), << >>)

Exec00E0 == Dispatch("00E0") /\ Commit("00E0", Op_00E0(CurBits, Fetched), << >>)
Exec00EE == Dispatch("00EE") /\ Commit("00EE", Op_00EE(CurBits, Fetched), << >>)
Exec1nnn == Dispatch("1nnn") /\ Commit("1nnn", Op_1nnn(CurBits, Fetched), << >>)
Exec2nnn == Dispatch("2nnn") /\ Commit("2nnn", Op_2nnn(CurBits, Fetched), << >>)
Exec3xkk == Dispatch("3xkk") /\ Commit("3xkk", Op_3xkk(CurBits, Fetched), << >>)
Exec4xkk == Dispatch("4xkk") /\ Commit("4xkk", Op_4xkk(CurBits, Fetched), << >>)
Exec5xy0 == Dispatch("5xy0") /\ Commit("5xy0", Op_5xy0(CurBits, Fetched), << >>)
Exec6xkk == Dispatch("6xkk") /\ Commit("6xkk", Op_6xkk(CurBits, Fetched), << >>)
Exec7xkk == Dispatch("7xkk") /\ Commit("7xkk", Op_7xkk(CurBits, Fetched), << >>)
Exec8xy0 == Dispatch("8xy0") /\ Commit("8xy0", Op_8xy0(CurBits, Fetched), << >>)
Exec8xy1 == Dispatch("8xy1") /\ Commit("8xy1", Op_8xy1(CurBits, Fetched), << >>)
Exec8xy2 == Dispatch("8xy2") /\ Commit("8xy2", Op_8xy2(CurBits, Fetched), << >>)
Exec8xy3 == Dispatch("8xy3") /\ Commit("8xy3", Op_8xy3(CurBits, Fetched), << >>)
Exec8xy4 == Dispatch("8xy4") /\ Commit("8xy4", Op_8xy4(CurBits, Fetched), << >>)
Exec8xy5 == Dispatch("8xy5") /\ Commit("8xy5", Op_8xy5(CurBits, Fetched), << >>)
Exec8xy6 == Dispatch("8xy6") /\ Commit("8xy6", Op_8xy6(CurBits, Fetched), << >>)
Exec8xy7 == Dispatch("8xy7") /\ Commit("8xy7", Op_8xy7(CurBits, Fetched), << >>)
Exec8xyE == Dispatch("8xyE") /\ Commit("8xyE", Op_8xyE(CurBits, Fetched), << >>)
Exec9xy0 == Dispatch("9xy0") /\ Commit("9xy0", Op_9xy0(CurBits, Fetched), << >>)
ExecAnnn == Dispatch("Annn") /\ Commit("Annn", Op_Annn(CurBits, Fetched), << >>)
ExecBnnn == Dispatch("Bnnn") /\ Commit("Bnnn", Op_Bnnn(CurBits, Fetched), << >>)
ExecCxkk ==
    /\ Dispatch("Cxkk")
    /\ \E rnd \in Byte : Commit("Cxkk", Op_Cxkk(CurBits, Fetched, rnd), << >>)
ExecDxyn ==
    /\ Dispatch("Dxyn")
    /\ Commit("Dxyn", Op_Dxyn(CurBits, Fetched),
              IF Fetched.reg.I + CurBits[4] > RAM_SIZE THEN << >>
              ELSE Draw(CurBits, Fetched).log)
ExecEx9E == Dispatch("Ex9E") /\ Commit("Ex9E", Op_Ex9E(CurBits, Fetched), << >>)
ExecExA1 == Dispatch("ExA1") /\ Commit("ExA1", Op_ExA1(CurBits, Fetched), << >>)
ExecFx07 == Dispatch("Fx07") /\ Commit("Fx07", Op_Fx07(CurBits, Fetched), << >>)
ExecFx0A == Dispatch("Fx0A") /\ Commit("Fx0A", Op_Fx0A(CurBits, Fetched), << >>)
ExecFx15 == Dispatch("Fx15") /\ Commit("Fx15", Op_Fx15(CurBits, Fetched), << >>)
ExecFx18 == Dispatch("Fx18") /\ Commit("Fx18", Op_Fx18(CurBits, Fetched), << >>)
ExecFx1E == Dispatch("Fx1E") /\ Commit("Fx1E", Op_Fx1E(CurBits, Fetched), << >>)
ExecFx29 == Dispatch("Fx29") /\ Commit("Fx29", Op_Fx29(CurBits, Fetched), << >>)
ExecFx33 == Dispatch("Fx33") /\ Commit("Fx33", Op_Fx33(CurBits, Fetched), << >>)
ExecFx55 == Dispatch("Fx55") /\ Commit("Fx55", Op_Fx55(CurBits, Fetched), << >>)
ExecFx65 == Dispatch("Fx65") /\ Commit("Fx65", Op_Fx65(CurBits, Fetched), << >>)

Next ==
    \/ Input \/ FetchFault \/ InvalidInstruction
    \/ Exec00E0 \/ Exec00EE \/ Exec1nnn \/ Exec2nnn \/ Exec3xkk \/ Exec4xkk
    \/ Exec5xy0 \/ Exec6xkk \/ Exec7xkk \/ Exec8xy0 \/ Exec8xy1 \/ Exec8xy2
    \/ Exec8xy3 \/ Exec8xy4 \/ Exec8xy5 \/ Exec8xy6 \/ Exec8xy7 \/ Exec8xyE
    \/ Exec9xy0 \/ ExecAnnn \/ ExecBnnn \/ ExecCxkk \/ ExecDxyn \/ ExecEx9E
    \/ ExecExA1 \/ ExecFx07 \/ ExecFx0A \/ ExecFx15 \/ ExecFx18 \/ ExecFx1E
    \/ ExecFx29 \/ ExecFx33 \/ ExecFx55 \/ ExecFx65

Spec == Init /\ [][Next]_vars

(* ------------------------------------------------------------------ *)
(* The step just taken                                                *)
(* ------------------------------------------------------------------ *)
LastX == last.bits[2]
LastY == last.bits[3]
LastN == last.bits[4]
\* the registers the step started from
OldV == last.reg.V
Ran(k) == last.key = k

\* the pixels under the set bits of the sprite rows bytes placed at (vx, vy),
\* coordinates wrapped
SpriteCells(bytes, vx, vy) ==
    {<<(vy + r) % DISPLAY_MODE_HEIGHT, (vx + c) % DISPLAY_MODE_WIDTH>> :
        <<r, c>> \in {rc \in (0..(Len(bytes) - 1)) \X (0..7) :
                        BitAt(bytes[rc[1] + 1], 7 - rc[2]) = 1}}

\* buffer with every pixel of cells toggled
Toggled(buffer, cells) == (buffer \ cells) \cup (cells \ buffer)

\* the sprite rows the last DRW named
LastSprite == SpriteBytes(last.mem, last.reg.I, LastN)

(* ------------------------------------------------------------------ *)
(* C1. DRW Vx,Vy,n never fails because of display coordinates: with   *)
(* the sprite inside memory (and x, y not F), the step does not halt  *)
(* and every set sprite bit (r, c) is XORed into pixel                *)
(* ((Vy+r) mod 32, (Vx+c) mod 64).                                    *)
(* ------------------------------------------------------------------ *)
C1_DrawWraps ==
    (Ran("Dxyn") /\ LastX /= 15 /\ LastY /= 15 /\ last.reg.I + LastN <= RAM_SIZE)
    => /\ panic = "none"
       /\ display = Toggled(last.display,
                            SpriteCells(LastSprite, OldV[LastX], OldV[LastY]))

(* ------------------------------------------------------------------ *)
(* C2. Whenever DRW completes, VF is 1 if a set sprite bit was applied *)
(* to a pixel that was lit just before that bit was applied, and 0    *)
(* otherwise (also when n = 0 or no sprite bit is set). Every bit of  *)
(* the n rows is applied; with x and y not F the pixels are those of  *)
(* the sprite at (Vx, Vy) and the test is on the display before.      *)
(* ------------------------------------------------------------------ *)
C2_CollisionFlag ==
    (Ran("Dxyn") /\ panic = "none")
    => /\ Len(last.log) = 8 * LastN
       /\ reg.V[15] = IF \E i \in 1..Len(last.log) :
                            last.log[i].bit /\ last.log[i].before
                      THEN 1 ELSE 0
       /\ (LastX /= 15 /\ LastY /= 15)
          => reg.V[15] = IF SpriteCells(LastSprite, OldV[LastX], OldV[LastY])
                                \cap last.display /= {}
                         THEN 1 ELSE 0

\* a draw that completed with a collision, next to set bits on unlit pixels
C2_Witness ==
    /\ Ran("Dxyn") /\ panic = "none" /\ reg.V[15] = 1
    /\ \E i \in 1..Len(last.log) : last.log[i].bit /\ ~last.log[i].before
    /\ \E i \in 1..Len(last.log) : ~last.log[i].bit /\ last.log[i].before

(* ------------------------------------------------------------------ *)
(* C3. The same DRW executed twice in a row (same I, same sprite      *)
(* bytes, same Vx and Vy, x and y not F) leaves the display as it was *)
(* before the first draw, and the second draw sets VF = 1 iff the     *)
(* first left a pixel lit under a set sprite bit.                     *)
(* ------------------------------------------------------------------ *)
SameDrawTwice ==
    /\ Ran("Dxyn") /\ prev.key = "Dxyn" /\ panic = "none"
    /\ last.bits = prev.bits /\ LastX /= 15 /\ LastY /= 15
    /\ last.reg.I = prev.reg.I
    /\ LastSprite = prev.sprite
    /\ OldV[LastX] = prev.reg.V[LastX] /\ OldV[LastY] = prev.reg.V[LastY]

C3_DrawTwiceRestores ==
    SameDrawTwice
    => /\ display = prev.display
       /\ (reg.V[15] = 1) <=>
            (SpriteCells(LastSprite, OldV[LastX], OldV[LastY]) \cap last.display /= {})
       /\ reg.V[15] \in {0, 1}

\* the second of two equal draws, the first of which changed the display and
\* left sprite pixels lit
C3_Witness ==
    /\ SameDrawTwice /\ reg.V[15] = 1
    /\ last.display /= prev.display /\ prev.display /= {}

(* ------------------------------------------------------------------ *)
(* C4. After ADD Vx,Vy with x in 0..E and y in 0..F: VF = 1 if old Vx *)
(* + old Vy > 255 and 0 otherwise, and Vx = (old Vx + old Vy) mod 256.*)
(* ------------------------------------------------------------------ *)
C4_AddCarry ==
    (Ran("8xy4") /\ LastX /= 15)
    => /\ reg.V[15] = IF OldV[LastX] + OldV[LastY] > 255 THEN 1 ELSE 0
       /\ reg.V[LastX] = (OldV[LastX] + OldV[LastY]) % 256

(* ------------------------------------------------------------------ *)
(* C5. After SUB Vx,Vy with x in 0..E and y in 0..F: VF = 1 if old Vx *)
(* > old Vy (0 when equal) and Vx = (old Vx - old Vy) mod 256.        *)
(* ------------------------------------------------------------------ *)
C5_SubBorrow ==
    (Ran("8xy5") /\ LastX /= 15)
    => /\ reg.V[15] = IF OldV[LastX] > OldV[LastY] THEN 1 ELSE 0
       /\ reg.V[LastX] = (OldV[LastX] - OldV[LastY]) % 256

(* ------------------------------------------------------------------ *)
(* C6. For x in 0..E: after SHR Vx, VF is bit 0 of the old Vx and Vx  *)
(* = old Vx div 2; after SHL Vx, VF is bit 7 of the old Vx and Vx =   *)
(* (old Vx * 2) mod 256. Whatever y is, the registers are the old     *)
(* ones with only Vx and VF replaced: Vy is not an operand.           *)
(* ------------------------------------------------------------------ *)
C6_Shifts ==
    /\ (Ran("8xy6") /\ LastX /= 15)
       => reg.V = [OldV EXCEPT ![15] = OldV[LastX] % 2, ![LastX] = OldV[LastX] \div 2]
    /\ (Ran("8xyE") /\ LastX /= 15)
       => reg.V = [OldV EXCEPT ![15] = OldV[LastX] \div 128,
                               ![LastX] = (OldV[LastX] * 2) % 256]

\* SHL of a value with bit 7 set and bit 0 set, with another register as y
C6_Witness ==
    /\ Ran("8xyE") /\ LastX = 0 /\ LastY = 14
    /\ OldV[0] = 255 /\ OldV[14] = 2 /\ reg.V[0] = 254 /\ reg.V[15] = 1 /\ reg.V[14] = 2

(* ------------------------------------------------------------------ *)
(* C7. ADD Vx,kk sets Vx = (old Vx + kk) mod 256, does not halt, and  *)
(* changes no other register (VF is unchanged when x is not F).       *)
(* ------------------------------------------------------------------ *)
C7_AddImmediate ==
    Ran("7xkk")
    => /\ panic = "none"
       /\ reg.V = [OldV EXCEPT ![LastX] = (OldV[LastX] + KK(last.bits)) % 256]
       /\ reg.I = last.reg.I /\ reg.SP = last.reg.SP

\* 0xFF + 0x02 gives 0x01, VF keeps its 3
C7_Witness ==
    /\ Ran("7xkk") /\ LastX = 0 /\ OldV[0] = 255 /\ KK(last.bits) = 2
    /\ reg.V[0] = 1 /\ reg.V[15] = 3 /\ panic = "none"

(* ------------------------------------------------------------------ *)
(* C8. A CALL that does not overflow the stack, followed by RET as    *)
(* the next instruction, leaves PC at the instruction after the CALL  *)
(* and SP at its value before the CALL; and every RET returns to the  *)
(* innermost CALL not yet returned from (LIFO), restoring the SP that *)
(* CALL started from.                                                 *)
(* ------------------------------------------------------------------ *)
C8_CallRet ==
    /\ (Ran("00EE") /\ prev.key = "2nnn" /\ panic = "none")
       => (reg.PC = prev.reg.PC + 2 /\ reg.SP = prev.reg.SP)
    /\ (Ran("00EE") /\ panic = "none" /\ last.calls /= << >>)
       => /\ reg.PC = last.calls[Len(last.calls)][1]
          /\ reg.SP = last.calls[Len(last.calls)][2]
          /\ calls = SubSeq(last.calls, 1, Len(last.calls) - 1)

\* the outermost RET of at least two nested CALLs, after an inner RET
C8_Witness ==
    /\ Ran("00EE") /\ prev.key = "00EE" /\ panic = "none"
    /\ Len(prev.calls) >= 2 /\ calls = << >>
    /\ reg.SP = 0 /\ reg.PC = ENTRY_POINT + 2

(* ------------------------------------------------------------------ *)
(* C9. CALL with the stack at capacity and RET with the stack empty   *)
(* are fatal: the machine halts; SP never wraps around and stays      *)
(* inside the 16 slots while the machine runs.                        *)
(* ------------------------------------------------------------------ *)
C9_StackFaultsFatal ==
    /\ (Ran("2nnn") /\ last.reg.SP = STACK_SIZE - 1) => panic /= "none"
    /\ (Ran("00EE") /\ last.reg.SP = 0) => panic /= "none"
    /\ panic = "none" => reg.SP < STACK_SIZE

(* ------------------------------------------------------------------ *)
(* C10. LD B,Vx with I + 2 < 4096 writes mem[I] = Vx div 100,         *)
(* mem[I+1] = (Vx div 10) mod 10, mem[I+2] = Vx mod 10, and changes   *)
(* no other memory cell and no register.                              *)
(* ------------------------------------------------------------------ *)
C10_BcdStored ==
    (Ran("Fx33") /\ last.reg.I + 2 < RAM_SIZE)
    => /\ panic = "none"
       /\ MemRead(mem, last.reg.I) = OldV[LastX] \div 100
       /\ MemRead(mem, last.reg.I + 1) = (OldV[LastX] \div 10) % 10
       /\ MemRead(mem, last.reg.I + 2) = OldV[LastX] % 10
       /\ \A a \in (DOMAIN mem \cup DOMAIN last.mem)
                     \ {last.reg.I, last.reg.I + 1, last.reg.I + 2} :
              MemRead(mem, a) = MemRead(last.mem, a)
       /\ reg.V = OldV /\ reg.I = last.reg.I /\ reg.SP = last.reg.SP

(* ------------------------------------------------------------------ *)
(* C11. With I + x inside memory, LD [I],Vx writes mem[I+i] = Vi for  *)
(* every i in 0..x and changes no other cell, no register and not I;  *)
(* LD Vx,[I] sets Vi = mem[I+i] for every i in 0..x and changes       *)
(* nothing else; and a load with the x and I of the last store, with  *)
(* memory as the store left it, gives V0..Vx the values they had at   *)
(* the store, whatever they were changed to in between.               *)
(* ------------------------------------------------------------------ *)
C11_StoreLoad ==
    /\ (Ran("Fx55") /\ last.reg.I + LastX < RAM_SIZE)
       => /\ panic = "none"
          /\ \A a \in DOMAIN mem \cup DOMAIN last.mem
                        \cup (last.reg.I..(last.reg.I + LastX)) :
                MemRead(mem, a) = IF a \in last.reg.I..(last.reg.I + LastX)
                                  THEN OldV[a - last.reg.I] ELSE MemRead(last.mem, a)
          /\ reg.V = OldV /\ reg.I = last.reg.I /\ reg.SP = last.reg.SP
          /\ stack = last.stack /\ display = last.display
    /\ (Ran("Fx65") /\ last.reg.I + LastX < RAM_SIZE)
       => /\ panic = "none"
          /\ reg.V = [i \in 0..(GP_REG_CNT - 1) |->
                        IF i <= LastX THEN MemRead(last.mem, last.reg.I + i) ELSE OldV[i]]
          /\ mem = last.mem /\ reg.I = last.reg.I /\ reg.SP = last.reg.SP
          /\ stack = last.stack /\ display = last.display
    /\ (Ran("Fx65") /\ panic = "none" /\ stored.valid
            /\ stored.I = last.reg.I /\ stored.x = LastX)
       => \A i \in 0..LastX : reg.V[i] = stored.V[i]

\* a load that brings back V0 and V1 after both were changed since the store
C11_Witness ==
    /\ Ran("Fx65") /\ panic = "none" /\ stored.valid
    /\ stored.I = last.reg.I /\ stored.x = LastX /\ LastX >= 1
    /\ OldV[0] /= stored.V[0] /\ OldV[1] /= stored.V[1]
    /\ reg.V[0] = stored.V[0] /\ reg.V[1] = stored.V[1]

\* every step taken started from a machine that had not halted: once a step
\* is fatal, no instruction executes after it
NoStepAfterHalt == last.panic = "none"

(* ------------------------------------------------------------------ *)
(* C12. A step that would touch memory at an address >= 4096 is fatal *)
(* (index out of bounds) and the address is neither wrapped nor       *)
(* clipped: the fetch with PC >= 0xFFF runs no instruction; DRW with  *)
(* I + n > 4096 draws nothing; LD [I],Vx with I + x > 4095 writes no  *)
(* cell below I; LD Vx,[I] with I + x > 4095 loads no register whose  *)
(* cell is outside memory; and no step follows a fatal one.           *)
(* ------------------------------------------------------------------ *)
C12_OutOfMemoryFatal ==
    /\ (last.key /= "none" /\ last.reg.PC >= RAM_SIZE - 1)
       => /\ Ran("fetch") /\ panic = "index out of bounds"
          /\ reg.PC = last.reg.PC /\ reg.V = OldV /\ reg.I = last.reg.I
          /\ mem = last.mem /\ display = last.display /\ stack = last.stack
    /\ (Ran("Dxyn") /\ last.reg.I + LastN > RAM_SIZE)
       => /\ panic = "index out of bounds"
          /\ display = last.display /\ reg.V = OldV /\ mem = last.mem
    /\ (Ran("Fx55") /\ last.reg.I + LastX > RAM_SIZE - 1)
       => /\ panic = "index out of bounds"
          /\ \A a \in DOMAIN mem \cup DOMAIN last.mem :
                /\ a < RAM_SIZE
                /\ a < last.reg.I => MemRead(mem, a) = MemRead(last.mem, a)
          /\ reg.V = OldV
    /\ (Ran("Fx65") /\ last.reg.I + LastX > RAM_SIZE - 1)
       => /\ panic = "index out of bounds"
          /\ \A i \in 0..(GP_REG_CNT - 1) :
                (last.reg.I + i >= RAM_SIZE \/ i > LastX) => reg.V[i] = OldV[i]
          /\ mem = last.mem
    /\ NoStepAfterHalt

\* LD [I],V1 at I = 0xFFF: V0 reached the last cell, then the step was fatal
C12_Witness ==
    /\ Ran("Fx55") /\ last.reg.I = RAM_SIZE - 1 /\ LastX = 1
    /\ OldV[0] /= 0 /\ MemRead(mem, RAM_SIZE - 1) = OldV[0]
    /\ panic = "index out of bounds"

\* a timer after one decrement
Dec(t) == IF t > 0 THEN t - 1 ELSE 0

(* ------------------------------------------------------------------ *)
(* C13. The timers are decremented once per Update event, however     *)
(* many interpreter steps the event runs: when an Update event has    *)
(* run its steps and none of them wrote a timer, DT and ST are each   *)
(* one less than when the event began (or still 0).                   *)
(* ------------------------------------------------------------------ *)
C13_OncePerTick ==
    (last.key /= "none" /\ iter = 0 /\ panic = "none" /\ ~tick.wrote)
    => (reg.DT = Dec(tick.DT) /\ reg.ST = Dec(tick.ST))

(* ------------------------------------------------------------------ *)
(* C14. After LD ST,Vx wrote k > 0 with the audio not playing, and    *)
(* with no later write of ST, the audio is playing after each of the  *)
(* first k-1 calls of update_ST and is not playing after the k-th,    *)
(* when ST = 0, and it stays so. Each call with ST > 0 decrements ST  *)
(* and leaves the audio playing iff ST is still above 0; a call with  *)
(* ST = 0 changes neither ST nor the audio.                           *)
(* ------------------------------------------------------------------ *)
C14_SoundTimer ==
    /\ (sound.k > 0 /\ sound.stopped)
       => IF sound.n = 0 THEN ~Audio_is_playing(audio) /\ reg.ST = sound.k
          ELSE IF sound.n < sound.k
               THEN Audio_is_playing(audio) /\ reg.ST = sound.k - sound.n
               ELSE ~Audio_is_playing(audio) /\ reg.ST = 0
    /\ (last.key /= "none" /\ last.reg.ST > 0)
       => /\ Audio_is_playing(audio) <=> last.reg.ST > 1
          /\ last.key /= "Fx18" => reg.ST = last.reg.ST - 1
    /\ (last.key /= "none" /\ last.reg.ST = 0)
       => /\ audio = last.audio
          /\ last.key /= "Fx18" => reg.ST = 0

\* the third call after LD ST wrote 3: the audio was playing and has stopped
C14_Witness ==
    /\ sound.k = 3 /\ sound.stopped /\ sound.n = 3
    /\ Audio_is_playing(last.audio) /\ ~Audio_is_playing(audio) /\ reg.ST = 0

(* ------------------------------------------------------------------ *)
(* C15. update_DT takes exactly 1 from DT when DT > 0 and leaves 0 at *)
(* 0; DT and ST are always in 0..255 and never go from 0 to 255; a    *)
(* step whose instruction is not LD DT,Vx leaves DT at the value      *)
(* update_DT gave it, so DT never increases between two writes, and   *)
(* likewise ST with LD ST,Vx and update_ST: no other instruction      *)
(* changes a timer.                                                   *)
(* ------------------------------------------------------------------ *)
C15_TimersOnlyDecrease ==
    /\ reg.DT \in Byte /\ reg.ST \in Byte
    /\ (last.key \notin {"none", "Fx15"})
       => reg.DT = (IF last.reg.DT > 0 THEN last.reg.DT - 1 ELSE 0)
    /\ (last.key \notin {"none", "Fx18"})
       => reg.ST = (IF last.reg.ST > 0 THEN last.reg.ST - 1 ELSE 0)
    /\ Ran("Fx15") => reg.DT = OldV[LastX] /\ reg.ST = Dec(last.reg.ST)
    /\ Ran("Fx18") => reg.ST = OldV[LastX] /\ reg.DT = Dec(last.reg.DT)

\* DT went from 1 to 0 in the step before and stayed 0 in this one, in which
\* ST went from 1 to 0
C15_Witness ==
    /\ last.key = "6xkk" /\ prev.key = "6xkk"
    /\ prev.reg.DT = 1 /\ last.reg.DT = 0 /\ reg.DT = 0
    /\ last.reg.ST = 1 /\ reg.ST = 0

(* ------------------------------------------------------------------ *)
(* C16. LD Vx,K waits for a key press: a step at LD Vx,K either       *)
(* leaves the machine waiting at the instruction, Vx and the other    *)
(* registers unchanged, or resumes after it with Vx = k for a key k   *)
(* that has been pressed.                                             *)
(* ------------------------------------------------------------------ *)
C16_WaitForKey ==
    Ran("Fx0A")
    => \/ reg.V = OldV /\ reg.PC = last.reg.PC
       \/ \E k \in 0..(KEYBOARD_SIZE - 1) :
            /\ last.keys[k]
            /\ reg.V = [OldV EXCEPT ![LastX] = k]
            /\ reg.PC = last.reg.PC + 2

\* the keys of the handler table built by Inst::new
InstSet ==
    {"00E0", "00EE", "1nnn", "2nnn", "3xkk", "4xkk", "5xy0", "6xkk", "7xkk",
     "8xy0", "8xy1", "8xy2", "8xy3", "8xy4", "8xy5", "8xy6", "8xy7", "8xyE",
     "9xy0", "Annn", "Bnnn", "Cxkk", "Dxyn", "Ex9E", "ExA1", "Fx07", "Fx0A",
     "Fx15", "Fx18", "Fx1E", "Fx29", "Fx33", "Fx55", "Fx65"}

\* the tuple pattern of each arm of the match of Inst::exec, -1 for _
Patterns ==
    [f \in InstSet |->
        CASE f = "00E0" -> <<0, 0, 14, 0>>    [] f = "00EE" -> <<0, 0, 14, 14>>
          [] f = "1nnn" -> <<1, -1, -1, -1>>  [] f = "2nnn" -> <<2, -1, -1, -1>>
          [] f = "3xkk" -> <<3, -1, -1, -1>>  [] f = "4xkk" -> <<4, -1, -1, -1>>
          [] f = "5xy0" -> <<5, -1, -1, 0>>   [] f = "6xkk" -> <<6, -1, -1, -1>>
          [] f = "7xkk" -> <<7, -1, -1, -1>>  [] f = "8xy0" -> <<8, -1, -1, 0>>
          [] f = "8xy1" -> <<8, -1, -1, 1>>   [] f = "8xy2" -> <<8, -1, -1, 2>>
          [] f = "8xy3" -> <<8, -1, -1, 3>>   [] f = "8xy4" -> <<8, -1, -1, 4>>
          [] f = "8xy5" -> <<8, -1, -1, 5>>   [] f = "8xy6" -> <<8, -1, -1, 6>>
          [] f = "8xy7" -> <<8, -1, -1, 7>>   [] f = "8xyE" -> <<8, -1, -1, 14>>
          [] f = "9xy0" -> <<9, -1, -1, 0>>   [] f = "Annn" -> <<10, -1, -1, -1>>
          [] f = "Bnnn" -> <<11, -1, -1, -1>> [] f = "Cxkk" -> <<12, -1, -1, -1>>
          [] f = "Dxyn" -> <<13, -1, -1, -1>> [] f = "Ex9E" -> <<14, -1, 9, 14>>
          [] f = "ExA1" -> <<14, -1, 10, 1>>  [] f = "Fx07" -> <<15, -1, 0, 7>>
          [] f = "Fx0A" -> <<15, -1, 0, 10>>  [] f = "Fx15" -> <<15, -1, 1, 5>>
          [] f = "Fx18" -> <<15, -1, 1, 8>>   [] f = "Fx1E" -> <<15, -1, 1, 14>>
          [] f = "Fx29" -> <<15, -1, 2, 9>>   [] f = "Fx33" -> <<15, -1, 3, 3>>
          [] f = "Fx55" -> <<15, -1, 5, 5>>   [] f = "Fx65" -> <<15, -1, 6, 5>>]

\* the forms whose pattern the nibbles b match
Matching(b) == {f \in InstSet : \A i \in 1..4 : Patterns[f][i] \in {-1, b[i]}}

\* every 16-bit opcode matches at most one form; Decode gives that form, and
\* "invalid" exactly when there is none
AllOpcodesDecode ==
    \A op \in 0..65535 :
        LET ms == Matching(Chunk(op))
        IN /\ Cardinality(ms) <= 1
           /\ ms = {} <=> Decode(Chunk(op)) = "invalid"
           /\ ms /= {} => ms = {Decode(Chunk(op))}

(* ------------------------------------------------------------------ *)
(* C17. Every opcode matches at most one of the 34 forms. An opcode   *)
(* that matches one is executed by the handler of that form, which    *)
(* exists. An opcode that matches none is fatal (invalid instruction) *)
(* and its step changes neither V0..VF, I, SP, the stack, memory nor  *)
(* the display, and leaves the timers as update_ST and update_DT of   *)
(* that step left them; no step follows it.                           *)
(* ------------------------------------------------------------------ *)
C17_DecodeOrHalt ==
    /\ Cardinality(InstSet) = 34
    /\ AllOpcodesDecode
    /\ (last.key \notin {"none", "fetch"})
       => /\ Matching(last.bits) = {} <=> Ran("invalid")
          /\ Matching(last.bits) /= {}
             => /\ Matching(last.bits) = {last.key}
                /\ panic /= "invalid instruction"
    /\ Ran("invalid")
       => /\ panic = "invalid instruction"
          /\ reg.V = OldV /\ reg.I = last.reg.I /\ reg.SP = last.reg.SP
          /\ stack = last.stack /\ mem = last.mem /\ display = last.display
          /\ reg.DT = Dec(last.reg.DT) /\ reg.ST = Dec(last.reg.ST)
    /\ NoStepAfterHalt

\* 0x5AB1 fetched at the entry point: the machine halted with nothing changed
C17_Witness ==
    /\ Ran("invalid") /\ last.bits = <<5, 10, 11, 1>> /\ last.reg.PC = ENTRY_POINT
    /\ panic = "invalid instruction" /\ reg.V = OldV /\ mem = last.mem

\* the forms that are not a jump, a call, a return or a skip
NonJumps ==
    InstSet \ {"00EE", "1nnn", "2nnn", "Bnnn", "3xkk", "4xkk", "5xy0", "9xy0",
               "Ex9E", "ExA1"}

\* PC after a skip instruction of the last step whose condition is cond
SkipsIf(cond) == reg.PC = last.reg.PC + (IF cond THEN 4 ELSE 2)

\* nnn of the last opcode
LastNNN == LastX * 256 + LastY * 16 + LastN

(* ------------------------------------------------------------------ *)
(* C18. The opcode of a step is mem[PC] * 256 + mem[PC+1], and PC is  *)
(* advanced by 2 before the handler runs: an instruction that is not  *)
(* a jump, call, return or skip ends with PC = old PC + 2; SE, SNE,   *)
(* SKP and SKNP end with old PC + 4 when their condition holds and    *)
(* old PC + 2 when not; CALL pushes old PC + 2 and goes to nnn; JP    *)
(* ends with PC = nnn and JP V0,addr with PC = nnn + V0.              *)
(* ------------------------------------------------------------------ *)
C18_ProgramCounter ==
    /\ (last.key \notin {"none", "fetch"})
       => last.bits = Chunk(MemRead(last.mem, last.reg.PC) * 256
                              + MemRead(last.mem, last.reg.PC + 1))
    /\ last.key \in NonJumps => reg.PC = last.reg.PC + 2
    /\ Ran("3xkk") => SkipsIf(OldV[LastX] = LastY * 16 + LastN)
    /\ Ran("4xkk") => SkipsIf(OldV[LastX] /= LastY * 16 + LastN)
    /\ Ran("5xy0") => SkipsIf(OldV[LastX] = OldV[LastY])
    /\ Ran("9xy0") => SkipsIf(OldV[LastX] /= OldV[LastY])
    /\ (Ran("Ex9E") /\ OldV[LastX] < KEYBOARD_SIZE) => SkipsIf(last.keys[OldV[LastX]])
    /\ (Ran("ExA1") /\ OldV[LastX] < KEYBOARD_SIZE) => SkipsIf(~last.keys[OldV[LastX]])
    /\ (Ran("2nnn") /\ panic = "none")
       => stack[reg.SP] = last.reg.PC + 2 /\ reg.PC = LastNNN
    /\ Ran("1nnn") => reg.PC = LastNNN
    /\ Ran("Bnnn") => reg.PC = LastNNN + OldV[0]

\* SKP V0 with the key V0 names held down: the next instruction was skipped
C18_Witness ==
    /\ prev.key = "Ex9E" /\ last.keys[prev.reg.V[prev.bits[2]]]
    /\ last.reg.PC = prev.reg.PC + 4
    /\ Ran("ExA1") /\ reg.PC = last.reg.PC + 2

\* the pixels of glyph d at (0, 0): bit 7-c of byte r of the glyph is pixel (r, c)
Glyph(d) ==
    {rc \in (0..4) \X (0..7) : BitAt(digits[5 * d + rc[1] + 1], 7 - rc[2]) = 1}

\* the digits are in memory m as they were preloaded
FontIn(m) == \A a \in 0..(Len(digits) - 1) : MemRead(m, a) = digits[a + 1]

\* the last step drew 5 rows at (0, 0) on the cleared display, right after
\* LD F,Vx with Vx a digit, the digits being as preloaded
GlyphDrawn ==
    /\ Ran("Dxyn") /\ prev.key = "Fx29" /\ prev.reg.V[prev.bits[2]] <= 15
    /\ LastN = 5 /\ OldV[LastX] = 0 /\ OldV[LastY] = 0
    /\ last.display = {} /\ FontIn(last.mem)

(* ------------------------------------------------------------------ *)
(* C19. LD F,Vx sets I = 5 * Vx; so, with the digits in memory as     *)
(* preloaded, LD F,Vx with Vx = d in 0..F followed by a DRW of height *)
(* 5 at (0, 0) on the cleared display lights exactly the pixels of    *)
(* glyph d and sets VF = 0.                                           *)
(* ------------------------------------------------------------------ *)
C19_FontGlyphs ==
    /\ Ran("Fx29") => reg.I = 5 * OldV[LastX]
    /\ GlyphDrawn
       => /\ panic = "none"
          /\ last.reg.I = 5 * prev.reg.V[prev.bits[2]]
          /\ display = Glyph(prev.reg.V[prev.bits[2]])
          /\ reg.V[15] = 0

\* the glyph of B on the display: rows E0 90 E0 90 E0
C19_Witness ==
    /\ GlyphDrawn /\ prev.reg.V[prev.bits[2]] = 11
    /\ display = {<<0, 0>>, <<0, 1>>, <<0, 2>>, <<1, 0>>, <<1, 3>>,
                  <<2, 0>>, <<2, 1>>, <<2, 2>>, <<3, 0>>, <<3, 3>>,
                  <<4, 0>>, <<4, 1>>, <<4, 2>>}
    /\ reg.V[15] = 0

(* ------------------------------------------------------------------ *)
(* C20. In every reachable state the cells 0x000..0x04F hold the      *)
(* digits preloaded at startup.                                       *)
(* ------------------------------------------------------------------ *)
C20_FontIntact == FontIn(mem)

(* ------------------------------------------------------------------ *)
(* C20, amended. Whatever the ROM, the cells 0x000..0x04F hold the    *)
(* preloaded digits when the first step begins, and a step changes    *)
(* none of them unless its instruction is a store to memory (LD       *)
(* [I],Vx or LD B,Vx) with I <= 0x4F.                                 *)
(* ------------------------------------------------------------------ *)
C20_FontUnlessStored ==
    /\ last.key = "none" => FontIn(mem)
    /\ (last.key /= "none"
            /\ ~(last.key \in {"Fx55", "Fx33"} /\ last.reg.I < Len(digits)))
       => \A a \in 0..(Len(digits) - 1) : MemRead(mem, a) = MemRead(last.mem, a)

\* LD [I],Vx at I = 0x50 wrote memory next to the digits, which are intact
C20_Witness ==
    /\ Ran("Fx55") /\ last.reg.I = Len(digits) /\ panic = "none"
    /\ mem /= last.mem /\ FontIn(mem)

\* the arithmetic forms: ADD Vx,kk, LD Vx,Vy, OR, AND, XOR, ADD Vx,Vy, SUB, SHR,
\* SUBN, SHL
AluForms ==
    {"7xkk", "8xy0", "8xy1", "8xy2", "8xy3", "8xy4", "8xy5", "8xy6", "8xy7", "8xyE"}

\* the handler the table holds for the arithmetic form k, applied
AluHandler(k, bits, state) ==
    CASE k = "7xkk" -> Op_7xkk(bits, state)
      [] k = "8xy0" -> Op_8xy0(bits, state)
      [] k = "8xy1" -> Op_8xy1(bits, state)
      [] k = "8xy2" -> Op_8xy2(bits, state)
      [] k = "8xy3" -> Op_8xy3(bits, state)
      [] k = "8xy4" -> Op_8xy4(bits, state)
      [] k = "8xy5" -> Op_8xy5(bits, state)
      [] k = "8xy6" -> Op_8xy6(bits, state)
      [] k = "8xy7" -> Op_8xy7(bits, state)
      [] k = "8xyE" -> Op_8xyE(bits, state)

\* V0..VE after the last instruction, had VF been f when it started
LowVWith(f) ==
    LET alt == AluHandler(last.key, last.bits,
                          [Cur EXCEPT !.reg = [last.reg EXCEPT !.V[15] = f]])
    IN [i \in 0..(GP_REG_CNT - 2) |-> alt.reg.V[i]]

\* V0..VE as the last instruction left them
LowV == [i \in 0..(GP_REG_CNT - 2) |-> reg.V[i]]

\* the forms that take no operand from Vy
NoVy == {"7xkk", "8xy6", "8xyE"}

(* ------------------------------------------------------------------ *)
(* C21. For each of ADD Vx,kk, LD Vx,Vy, OR, AND, XOR, ADD Vx,Vy,     *)
(* SUB, SUBN, SHR and SHL and every x and y, the values of V0..VE     *)
(* after the instruction are the same whatever VF was before it.      *)
(* ------------------------------------------------------------------ *)
C21_VFNotInput ==
    last.key \in AluForms => \A f \in Byte : LowVWith(f) = LowV

(* ------------------------------------------------------------------ *)
(* C21, amended. The same, for every x and every y other than F (any  *)
(* y for ADD Vx,kk, SHR and SHL, which take no operand from Vy): with *)
(* y = F the instruction's operand Vy is VF itself.                   *)
(* ------------------------------------------------------------------ *)
C21_VFNotInputUnlessOperand ==
    (last.key \in AluForms /\ (LastY /= 15 \/ last.key \in NoVy))
    => \A f \in Byte : LowVWith(f) = LowV

\* ADD V0,V1 with carry, begun with VF = 3: V0 is the sum, VF the carry
C21_Witness ==
    /\ Ran("8xy4") /\ LastX = 0 /\ LastY = 1 /\ OldV[15] = 3
    /\ OldV[0] + OldV[1] > 255
    /\ reg.V[0] = (OldV[0] + OldV[1]) % 256 /\ reg.V[15] = 1
    /\ LowVWith(0) = LowV

(* ------------------------------------------------------------------ *)
(* C22. At the end of every call of update_ST the audio is playing    *)
(* only if ST > 0, whatever LD ST,Vx were executed before the call:   *)
(* the audio a step leaves is the audio its update_ST call left, and  *)
(* ST at the end of that call is the step's old ST after one          *)
(* decrement.                                                         *)
(* ------------------------------------------------------------------ *)
C22_SilentAtZero ==
    (last.key /= "none" /\ Audio_is_playing(audio)) => Dec(last.reg.ST) > 0

(* ------------------------------------------------------------------ *)
(* C23. CALL increments SP before it stores, so slot 0 of the stack   *)
(* is never written and at most 15 CALLs nest: while the machine runs *)
(* stack[0] = 0 and SP is in 0..15; the CALL at SP = 14 (the 15th     *)
(* nested) completes with SP = 15 and the CALL at SP = 15 is fatal.   *)
(* ------------------------------------------------------------------ *)
C23_StackSlotZero ==
    /\ panic = "none" => (stack[0] = 0 /\ reg.SP \in 0..(STACK_SIZE - 1))
    /\ (Ran("2nnn") /\ last.reg.SP = STACK_SIZE - 2)
       => (panic = "none" /\ reg.SP = STACK_SIZE - 1
             /\ stack[STACK_SIZE - 1] = last.reg.PC + 2)
    /\ (Ran("2nnn") /\ last.reg.SP = STACK_SIZE - 1) => panic /= "none"

\* the key flags after the events evs, all keys up before them: a key is down
\* iff its last event is a press
KeysAfter(evs) ==
    [k \in 0..(KEYBOARD_SIZE - 1) |->
        \E i \in 1..Len(evs) :
            /\ evs[i] = <<k, TRUE>>
            /\ \A j \in (i + 1)..Len(evs) : evs[j][1] /= k]

(* ------------------------------------------------------------------ *)
(* C24. The key flags are always those the delivered input events     *)
(* left (down after a press, up after a release): no instruction      *)
(* changes them. SKP Vx and SKNP Vx with Vx in 0..15 complete and     *)
(* skip according to flag Vx as the events delivered before the step  *)
(* left it. With Vx > 15 the step is fatal: there is no skip decision *)
(* from key Vx mod 16 or from an up key.                              *)
(* ------------------------------------------------------------------ *)
C24_KeypadSkips ==
    /\ key = KeysAfter(delivered)
    /\ (Ran("Ex9E") /\ OldV[LastX] < KEYBOARD_SIZE)
       => panic = "none" /\ SkipsIf(KeysAfter(last.delivered)[OldV[LastX]])
    /\ (Ran("ExA1") /\ OldV[LastX] < KEYBOARD_SIZE)
       => panic = "none" /\ SkipsIf(~KeysAfter(last.delivered)[OldV[LastX]])
    /\ (last.key \in {"Ex9E", "ExA1"} /\ OldV[LastX] >= KEYBOARD_SIZE)
       => panic = "index out of bounds" /\ reg.PC = last.reg.PC + 2

\* SKP V0 for key 1 after key 1 was pressed and released: no skip
C24_Witness ==
    /\ Ran("Ex9E") /\ OldV[LastX] = 1
    /\ last.delivered = <<<<1, TRUE>>, <<1, FALSE>>>>
    /\ reg.PC = last.reg.PC + 2 /\ panic = "none"

====
